---- MODULE Spec2Model ----
(***************************************************************************)
(* A model of the archer repair pipeline:                                  *)
(*   - comparator.py   : normalize_port, find_arch_diffs, run_compare      *)
(*   - extractor.py    : print_module_hierarchy, build_structure,          *)
(*                       run_extract                                       *)
(*   - interpreter.py  : parse_spec                                        *)
(*   - archer.py       : main (the bounded repair loop)                    *)
(*                                                                         *)
(* Text that the code inspects character by character (port strings) is a  *)
(* sequence of code points: 32 is the space, 9 the tab, 58 the colon,      *)
(* 44 the comma, 97.. the letters.  Names that the code only compares or   *)
(* uses as keys (module, instance and file names) are TLA+ strings.        *)
(* A JSON object is a record; a key that the object lacks is a field the   *)
(* record lacks, and Get is dict.get.                                      *)
(***************************************************************************)
EXTENDS Integers, Sequences, FiniteSets, TLC

VARIABLES
    pc,             \* position of the running entry point
    i,              \* archer.main: loop variable of `for i in range(MAX_ITER)`
    outcome,        \* how the run ended ("none" while it runs)
    specJson,       \* SPEC.json: the expected tree, or NoFile
    xml,            \* Vtop.xml as parsed: the flat module list, or BadXml
    hierTxt,        \* Vtop_hierarchy.txt: the printed listing
    rtlJson,        \* Vtop_hierarchy.json: the actual tree, or NoFile
    diffJson,       \* Diff_Arch.json: the list under "Diff_Arch"
    simLog,         \* sim.log: the captured output of the last `make all`
    apiKey,         \* whether OPENAI_API_KEY is set in the environment
    hashProbes,     \* this process's salted str hashes: str -> the slots its hash probes
    content,        \* source files on disk: path -> text
    backup,         \* <path>.bak on disk: path -> text or NoBackup
    orig,           \* history: content at the start of the run
    modified_files, \* archer.main: modified_files of this iteration
    dpos,           \* archer.main: position of `for diff in diffs`
    trace           \* history: what ran so far (counters and flags)

vars == <<pc, i, outcome, specJson, xml, hierTxt, rtlJson, diffJson, simLog,
          apiKey, hashProbes,
          content, backup, orig, modified_files, dpos, trace>>

----------------------------------------------------------------------------
(* Generic helpers *)

\* dict.get(key, default)
Get(node, key, default) == IF key \in DOMAIN node THEN node[key] ELSE default

\* Python truthiness of a str-or-None value
NoneValue == "<None>"
Truthy(s) == s # "" /\ s # NoneValue

\* a file that does not exist
NoFile == [absent |-> TRUE]
IsFile(f) == "absent" \notin DOMAIN f

Range(s) == {s[k] : k \in 1..Len(s)}

\* F(v), with v computed once however often F reads it
ValueOf(v, F(_)) == CHOOSE r \in {F(x) : x \in {v}} : TRUE

\* str < str in Python: lexicographic by code point
RECURSIVE StrLess(_, _)
StrLess(a, b) ==
    IF b = <<>> THEN FALSE
    ELSE IF a = <<>> THEN TRUE
    ELSE IF Head(a) # Head(b) THEN Head(a) < Head(b)
    ELSE StrLess(Tail(a), Tail(b))

RECURSIVE InsertSorted(_, _)
InsertSorted(x, l) ==
    IF l = <<>> THEN <<x>>
    ELSE IF StrLess(Head(l), x) THEN <<Head(l)>> \o InsertSorted(x, Tail(l))
    ELSE <<x>> \o l

\* sorted(list of str)
RECURSIVE sorted(_)
sorted(l) == IF l = <<>> THEN <<>> ELSE InsertSorted(Head(l), sorted(Tail(l)))

\* A set of at most four str is a table of eight slots.  A str is stored in
\* the first free slot of the probe sequence of its hash (hashProbes), and
\* the set is iterated slot by slot: the order depends on the hashes, which
\* are salted per process, and on the order of the insertions.  The table
\* grows at the fifth element, and a | b grows it before merging when a and
\* b hold five elements or more between them: the sets of this model stay
\* below both (at most two instances on either side of a node, three
\* modules in a list).  a - b has two paths, one for len(a) >> 2 > len(b)
\* (four elements in a, none in b) and one for the sets below that.
FreeSlot == "<free>"
EmptySet == <<FreeSlot, FreeSlot, FreeSlot, FreeSlot, FreeSlot, FreeSlot, FreeSlot, FreeSlot>>

\* set.add(key)
SetAdd(table, key) ==
    ValueOf(table, LAMBDA t :
        IF key \in Range(t) THEN t
        ELSE LET ps == hashProbes[key]
                 n == CHOOSE k \in 1..Len(ps) :
                         /\ t[ps[k]] = FreeSlot
                         /\ \A m \in 1..(k - 1) : t[ps[m]] # FreeSlot
             IN  [t EXCEPT ![ps[n]] = key])

\* `for key in keys: table.add(key)`
RECURSIVE SetAddAll(_, _)
SetAddAll(table, keys) ==
    IF keys = <<>> THEN table ELSE SetAddAll(SetAdd(table, Head(keys)), Tail(keys))

\* set(iterable), the iterable being a list or the keys of a dict
SetOfList(keys) == ValueOf(keys, LAMBDA l : SetAddAll(EmptySet, l))

\* `for key in table` and list(table)
SetIter(table) == SelectSeq(table, LAMBDA e : e # FreeSlot)

\* a | b: a copy of a (slot by slot), then the elements of b added in the
\* iteration order of b; the copy of an empty a takes over the table of b
SetUnion(a, b) ==
    ValueOf(<<a, b>>, LAMBDA ab :
        IF ab[1] = EmptySet THEN ab[2] ELSE SetAddAll(ab[1], SetIter(ab[2])))

\* a - S: when len(a) >> 2 > len(S), a copy of a (slot by slot) that the
\* elements of S are then discarded from; else the elements of a that are
\* not in S, added to a new set in the iteration order of a
SetDifference(a, S) ==
    ValueOf(a, LAMBDA t :
        IF Len(SetIter(t)) \div 4 > Cardinality(S)
        THEN [k \in 1..Len(t) |-> IF t[k] \in S THEN FreeSlot ELSE t[k]]
        ELSE SetOfList(SelectSeq(SetIter(t), LAMBDA e : e \notin S)))

\* the slots (1..8) that hash(name) probes in a table of 8 slots, in probe
\* order, under PYTHONHASHSEED = seed (CPython 3.11, 64 bits): slot
\* (hash & 7) + 1 first, then i := (5*i + 1 + perturb) & 7 with perturb the
\* hash shifted right by 5 bits more at every probe
StrHashes(seed) ==
    CASE seed = 1 ->
           [U1 |-> <<3, 7, 1, 8, 6>>, U2 |-> <<5, 1, 5, 2, 1>>, G1 |-> <<2, 8, 3, 7, 6>>,
            top |-> <<2, 7, 7, 5, 5>>, ModA |-> <<4, 2, 2, 5, 7>>, ModB |-> <<4, 1, 4, 8, 3>>]
      [] seed = 2 ->
           [U1 |-> <<8, 5, 1, 2, 8>>, U2 |-> <<1, 7, 7, 5, 6>>, G1 |-> <<3, 6, 8, 4, 4>>,
            top |-> <<7, 5, 8, 8, 4>>, ModA |-> <<7, 4, 8, 8, 3>>, ModB |-> <<5, 1, 7, 7, 5>>]
      [] seed = 3 ->
           [U1 |-> <<8, 8, 7, 7, 5>>, U2 |-> <<7, 4, 5, 3, 2>>, G1 |-> <<7, 6, 8, 8, 1>>,
            top |-> <<8, 2, 6, 3, 5>>, ModA |-> <<3, 3, 7, 1, 7>>, ModB |-> <<2, 1, 7, 2, 2>>]
      [] seed = 4 ->
           [U1 |-> <<1, 7, 8, 1, 5>>, U2 |-> <<1, 8, 7, 5, 5>>, G1 |-> <<7, 4, 8, 4, 5>>,
            top |-> <<6, 8, 6, 1, 2>>, ModA |-> <<2, 5, 6, 3, 6>>, ModB |-> <<1, 6, 5, 8, 5>>]
      [] seed = 7 ->
           [U1 |-> <<4, 8, 7, 7, 1>>, U2 |-> <<2, 8, 2, 4, 6>>, G1 |-> <<4, 4, 4, 2, 5>>,
            top |-> <<4, 6, 2, 2, 3>>, ModA |-> <<7, 7, 8, 8, 3>>, ModB |-> <<2, 3, 2, 3, 1>>]
      [] seed = 8 ->
           [U1 |-> <<5, 3, 3, 4, 5>>, U2 |-> <<4, 5, 4, 4, 4>>, G1 |-> <<8, 6, 7, 4, 6>>,
            top |-> <<7, 8, 5, 7, 6>>, ModA |-> <<1, 7, 5, 5, 6>>, ModB |-> <<5, 2, 3, 4, 6>>]
      [] seed = 9 ->
           [U1 |-> <<7, 4, 2, 4, 8>>, U2 |-> <<5, 1, 1, 4, 4>>, G1 |-> <<3, 4, 6, 8, 7>>,
            top |-> <<2, 1, 7, 5, 3>>, ModA |-> <<6, 2, 6, 2, 8>>, ModB |-> <<8, 2, 5, 8, 8>>]
      [] seed = 10 ->
           [U1 |-> <<2, 5, 4, 6, 7>>, U2 |-> <<5, 3, 8, 3, 7>>, G1 |-> <<5, 4, 8, 1, 5>>,
            top |-> <<7, 3, 5, 8, 8>>, ModA |-> <<4, 4, 7, 6, 3>>, ModB |-> <<1, 5, 2, 6, 7>>]
      [] seed = 12 ->
           [U1 |-> <<6, 1, 4, 2, 2>>, U2 |-> <<4, 6, 6, 8, 3>>, G1 |-> <<8, 4, 4, 7, 8>>,
            top |-> <<1, 8, 7, 3, 7>>, ModA |-> <<8, 7, 8, 1, 2>>, ModB |-> <<6, 5, 5, 4, 4>>]
      [] seed = 20 ->
           [U1 |-> <<6, 2, 2, 6, 3>>, U2 |-> <<6, 5, 8, 5, 6>>, G1 |-> <<6, 8, 4, 3, 2>>,
            top |-> <<8, 2, 2, 1, 7>>, ModA |-> <<7, 1, 7, 8, 4>>, ModB |-> <<7, 3, 7, 7, 5>>]

Perms(S) == {p \in [1..Cardinality(S) -> S] : Range(p) = S}

----------------------------------------------------------------------------
(* comparator.py *)

\* port_str.replace(" ", "")
normalize_port(port_str) == SelectSeq(port_str, LAMBDA c : c # 32)

\* sorted([normalize_port(p) for p in ports])
ports_norm(ports) == sorted([k \in 1..Len(ports) |-> normalize_port(ports[k])])

\* a faulty variant of NodeMismatch: ports are compared only when the modules agree
\* and a module mismatch alone is not reported
NodeMismatch_ports_only(s_mod, p_mod, s_ports_norm, p_ports_norm) ==
    s_ports_norm # p_ports_norm

\* the condition of comparator.py line 34
NodeMismatch(s_mod, p_mod, s_ports_norm, p_ports_norm) ==
    s_mod # p_mod \/ s_ports_norm # p_ports_norm

\* the "Missing" side of a Diff Record
Missing == [Missing |-> TRUE]
IsMissing(side) == "Missing" \in DOMAIN side

\* {"Module_name": .., "Instance_name": .., "Port": ..}
NodeSummary(mod, inst, ports) ==
    [Module_name |-> mod, Instance_name |-> inst, Port |-> ports]

DiffRecord(file, spec, parsed) == [file |-> file, SPEC |-> spec, Parsed |-> parsed]

\* lines 30-32: the file a mismatch record of the current node is filed under
current_node_file(parsed_node, parent_file) ==
    IF Truthy(Get(parsed_node, "File_path", ""))
    THEN Get(parsed_node, "File_path", "")
    ELSE IF Truthy(parent_file) THEN parent_file ELSE "Top Level"

\* lines 57-59: the file handed down to the children
current_file(spec_node, parsed_node) ==
    LET s_mod == Get(spec_node, "Module_name", "")
        p_mod == Get(parsed_node, "Module_name", "")
    IN  IF Truthy(Get(parsed_node, "File_path", ""))
        THEN Get(parsed_node, "File_path", "")
        ELSE IF Truthy(p_mod) THEN p_mod \o ".v"
        ELSE IF Truthy(s_mod) THEN s_mod \o ".v"
        ELSE "Unknown.v"

\* {c.get("Instance_name"): c for c in children}: keys, and the value of a key
\* (the last child of that name)
MapKeys(children) ==
    {Get(children[k], "Instance_name", NoneValue) : k \in 1..Len(children)}
\* the keys in the order of the dict: by first occurrence
KeyList(children) ==
    LET name(k) == Get(children[k], "Instance_name", NoneValue)
        first == {k \in 1..Len(children) : \A m \in 1..(k - 1) : name(m) # name(k)}
    IN  [j \in 1..Cardinality(first) |->
            name(CHOOSE k \in first : Cardinality({m \in first : m <= k}) = j)]
MapGet(children, key) ==
    LET at == {k \in 1..Len(children) :
                  Get(children[k], "Instance_name", NoneValue) = key}
    IN  children[CHOOSE k \in at : \A m \in at : m <= k]

\* lines 35-47: the record of a mismatching pair
MismatchRecord(spec_node, parsed_node, parent_file) ==
    DiffRecord(current_node_file(parsed_node, parent_file),
               NodeSummary(Get(spec_node, "Module_name", ""),
                           Get(spec_node, "Instance_name", ""),
                           Get(spec_node, "Port", <<>>)),
               NodeSummary(Get(parsed_node, "Module_name", ""),
                           Get(parsed_node, "Instance_name", ""),
                           Get(parsed_node, "Port", <<>>)))

\* a faulty variant of OnlySpecRecord: the absent side is written as an empty node
OnlySpecRecord_empty_node(child, key, cur_file) ==
    DiffRecord(cur_file,
               NodeSummary(Get(child, "Module_name", ""), key, Get(child, "Port", <<>>)),
               NodeSummary("", key, <<>>))

\* lines 65-73: an instance only the spec has
OnlySpecRecord(child, key, cur_file) ==
    DiffRecord(cur_file,
               NodeSummary(Get(child, "Module_name", ""), key, Get(child, "Port", <<>>)),
               Missing)

\* lines 75-86: an instance only the parsed design has
OnlyParsedRecord(child, key, cur_file) ==
    DiffRecord(Get(child, "File_path", cur_file),
               Missing,
               NodeSummary(Get(child, "Module_name", ""), key, Get(child, "Port", <<>>)))

RECURSIVE find_arch_diffs(_, _, _, _)
RECURSIVE VisitKeys(_, _, _, _, _)

\* lines 61-86: `for key in all_keys`
VisitKeys(keys, s_children, p_children, cur_file, diffs) ==
    IF keys = <<>> THEN diffs
    ELSE LET key == Head(keys)
             after ==
                IF key \in MapKeys(s_children) /\ key \in MapKeys(p_children)
                THEN find_arch_diffs(MapGet(s_children, key), MapGet(p_children, key),
                                     cur_file, diffs)
                ELSE IF key \in MapKeys(s_children)
                THEN Append(diffs, OnlySpecRecord(MapGet(s_children, key), key, cur_file))
                ELSE Append(diffs, OnlyParsedRecord(MapGet(p_children, key), key, cur_file))
         IN  VisitKeys(Tail(keys), s_children, p_children, cur_file, after)

\* lines 18-86; diffs is the list the call appends to, the value is the list
\* after the call
find_arch_diffs(spec_arg, parsed_arg, file_arg, diffs) ==
    ValueOf(<<spec_arg, parsed_arg, file_arg>>, LAMBDA args :
        LET spec_node == args[1]
            parsed_node == args[2]
            parent_file == args[3]
            s_mod == Get(spec_node, "Module_name", "")
            p_mod == Get(parsed_node, "Module_name", "")
            s_ports_norm == ports_norm(Get(spec_node, "Port", <<>>))
            p_ports_norm == ports_norm(Get(parsed_node, "Port", <<>>))
            d1 == IF NodeMismatch(s_mod, p_mod, s_ports_norm, p_ports_norm)
                  THEN Append(diffs, MismatchRecord(spec_node, parsed_node, parent_file))
                  ELSE diffs
            s_children == Get(spec_node, "Instances", <<>>)
            p_children == Get(parsed_node, "Instances", <<>>)
            all_keys == SetUnion(SetOfList(KeyList(s_children)),
                                 SetOfList(KeyList(p_children)))
        IN  ValueOf(SetIter(all_keys), LAMBDA keys :
                VisitKeys(keys, s_children, p_children,
                          current_file(spec_node, parsed_node), d1)))

\* a JSON file that is valid JSON but no object (a list): .get raises
BadTree == [not_an_object |-> TRUE]

\* run_compare, lines 88-105: "exit" when a JSON file cannot be loaded
\* (load_json calls sys.exit(1)); "raise" when the spec or the parsed tree
\* is no object (AttributeError at line 19 or 20, after both files were
\* loaded); else "ok" and
\* diffs is the Diff_Arch list that is written.  Diff_Arch.json is written
\* on "ok" only.
run_compare(spec_json, parsed_json) ==
    IF ~IsFile(spec_json) \/ ~IsFile(parsed_json)
    THEN [status |-> "exit", diffs |-> <<>>]
    ELSE IF "not_an_object" \in DOMAIN spec_json \/ "not_an_object" \in DOMAIN parsed_json
    THEN [status |-> "raise", diffs |-> <<>>]
    ELSE [status |-> "ok",
          diffs |-> find_arch_diffs(spec_json, parsed_json, NoneValue, <<>>)]

----------------------------------------------------------------------------
(* extractor.py *)

\* The parsed elaboration (hierarchy_data) is the list of its modules in
\* document order, the order of the dict module_hierarchy; a module is
\*   [name, top, file_path, ports, submodules, connections]
\* with ports the names of hierarchy_data['ports'][name] (empty when the dict
\* has no such key), submodules the list of [name, type] and connections the
\* dict instance name -> list of [port, connected_to].

\* depth of nested calls at which the interpreter raises RecursionError
RecursionLimit == 5

ModuleNames(h) == {h[k].name : k \in 1..Len(h)}
ModuleInfo(h, name) == h[CHOOSE k \in 1..Len(h) : h[k].name = name]

RecursionError == [ok |-> FALSE, error |-> "RecursionError"]

\* ', '.join(list of str)
RECURSIVE JoinComma(_)
JoinComma(l) ==
    IF l = <<>> THEN <<>>
    ELSE IF Len(l) = 1 THEN l[1]
    ELSE l[1] \o <<44, 32>> \o JoinComma(Tail(l))

\* a faulty variant of FormatConn: no spaces around the colon
FormatConn_no_spaces(conn) == conn.port \o <<58>> \o JoinComma(conn.connected_to)

\* f"{conn['port']} : {connected_to}", extractor.py lines 258-259
FormatConn(conn) == conn.port \o <<32, 58, 32>> \o JoinComma(conn.connected_to)

\* the argument connections of build_structure: None, or a list
NoConnections == [none |-> TRUE]
Connections(l) == [list |-> l]

\* lines 253-259: the Port list of a node
NodePorts(h, module_name, connections) ==
    IF "none" \in DOMAIN connections
    THEN IF module_name \in ModuleNames(h)
         THEN ModuleInfo(h, module_name).ports ELSE <<>>
    ELSE [k \in 1..Len(connections.list) |-> FormatConn(connections.list[k])]

\* module_connections.get(sub_name, [])
ConnectionsOf(module_info, sub_name) ==
    IF sub_name \in DOMAIN module_info.connections
    THEN module_info.connections[sub_name] ELSE <<>>

\* line 261: `if module_name in hierarchy_data['hierarchy']`, the only
\* condition on descending into a module type
Descend(h, module_name, path) == module_name \in ModuleNames(h)

RECURSIVE build_structure(_, _, _, _, _)
RECURSIVE BuildChildren(_, _, _, _, _)

\* lines 265-271: `for submodule in module_info['submodules']`; the value is
\* the list of child nodes, or RecursionError
BuildChildren(h, module_info, k, path, done) ==
    IF k > Len(module_info.submodules) THEN [ok |-> TRUE, nodes |-> done]
    ELSE LET sub == module_info.submodules[k]
             child == build_structure(h, sub.type, sub.name,
                          Connections(ConnectionsOf(module_info, sub.name)), path)
         IN  IF ~child.ok THEN child
             ELSE BuildChildren(h, module_info, k + 1, path, Append(done, child.node))

\* lines 240-273; path is the list of module types of the active calls
build_structure(h, module_name, instance_name, connections, path) ==
    IF Len(path) >= RecursionLimit THEN RecursionError
    ELSE LET file_path == IF module_name \in ModuleNames(h)
                          THEN ModuleInfo(h, module_name).file_path ELSE ""
             kids == IF Descend(h, module_name, path)
                     THEN BuildChildren(h, ModuleInfo(h, module_name), 1,
                                        Append(path, module_name), <<>>)
                     ELSE [ok |-> TRUE, nodes |-> <<>>]
         IN  IF ~kids.ok THEN kids
             ELSE [ok |-> TRUE,
                   node |-> [Module_name |-> module_name,
                             Instance_name |-> instance_name,
                             File_path |-> file_path,
                             Port |-> NodePorts(h, module_name, connections),
                             Instances |-> kids.nodes]]

\* export_hierarchy_to_json, line 275
export_hierarchy_to_json(h, top_module) ==
    build_structure(h, top_module, "Top", NoConnections, <<>>)

RECURSIVE print_module_hierarchy(_, _, _, _, _)
RECURSIVE PrintSubmodules(_, _, _, _, _, _, _)

\* lines 103-117: `for submodule in submodules`; a printed line is
\* [indent, last, name, type], last telling "└── " from "├── "
PrintSubmodules(h, submodules, k, level, indent, path, lines) ==
    IF k > Len(submodules) THEN [ok |-> TRUE, lines |-> lines]
    ELSE LET submodule == submodules[k]
             last == submodule = submodules[Len(submodules)]
             line == [indent |-> indent, last |-> last,
                      name |-> submodule.name, type |-> submodule.type]
             below == IF submodule.type \in ModuleNames(h)
                      THEN print_module_hierarchy(h, submodule.type, level + 1,
                               Append(indent, IF last THEN "    " ELSE "|   "), path)
                      ELSE [ok |-> TRUE, lines |-> <<>>]
         IN  IF ~below.ok
             THEN [below EXCEPT !.lines = (lines \o <<line>>) \o below.lines]
             ELSE PrintSubmodules(h, submodules, k + 1, level, indent, path,
                                  (lines \o <<line>>) \o below.lines)

\* lines 92-117; the value is the list of printed lines, or RecursionError
\* with the lines printed before it was raised
print_module_hierarchy(h, module_name, level, indent, path) ==
    IF Len(path) >= RecursionLimit THEN RecursionError @@ [lines |-> <<>>]
    ELSE LET head == IF level = 0 THEN <<[top |-> module_name]>> ELSE <<>>
             ind == IF level = 0 THEN <<>> ELSE indent
         IN  IF module_name \notin ModuleNames(h) THEN [ok |-> TRUE, lines |-> head]
             ELSE LET r == PrintSubmodules(h, ModuleInfo(h, module_name).submodules,
                                           1, level, ind, Append(path, module_name), <<>>)
                  IN  [r EXCEPT !.lines = head \o r.lines]

BadXml == [unparsable |-> TRUE]

\* module_prefix.lower() in m.lower(), for the base name Vtop (prefix "top")
\* and the module names of this model
ContainsPrefix(m) == m \in {"top"}

\* a faulty variant of TopModules: the modules in document order
TopModules_document_order(h) == [k \in 1..Len(h) |-> h[k].name]

\* lines 293-311: the list top_modules
TopModules(h) ==
    LET names == [k \in 1..Len(h) |-> h[k].name]
        flagged == {h[k].name : k \in {n \in 1..Len(h) : h[n].top}}
        top_modules == SetOfList(SelectSeq(names, LAMBDA m : m \in flagged))
        all_modules == SetOfList(names)
        instantiated_modules ==
            UNION {{h[k].submodules[n].type : n \in 1..Len(h[k].submodules)} :
                      k \in 1..Len(h)}
        never == SetIter(SetDifference(all_modules, instantiated_modules))
        top_candidates == SelectSeq(names, ContainsPrefix)
    IN  IF flagged # {} THEN SetIter(top_modules)
        ELSE IF never # <<>> THEN never
        ELSE IF top_candidates # <<>> THEN top_candidates
        ELSE names

\* run_extract, lines 282-327: what it returns or raises, and the files it
\* writes: listed tells whether Vtop_hierarchy.txt was opened for writing,
\* hierarchy is the listing then written; json is the tree (NoFile when
\* Vtop_hierarchy.json was not written).  An exception raised while
\* print_module_hierarchy prints leaves the lines printed so far in the
\* listing and sys.stdout bound to the closed listing file
\* (export_hierarchy_to_file, lines 120-124): stdout_closed.
run_extract(x) ==
    IF "unparsable" \in DOMAIN x
    THEN [status |-> "False", listed |-> FALSE, hierarchy |-> <<>>, json |-> NoFile]
    ELSE LET h == x.modules
             top_modules == TopModules(h)
         IN  IF top_modules = <<>>
             THEN [status |-> "False", listed |-> FALSE, hierarchy |-> <<>>,
                   json |-> NoFile]
             ELSE LET top_module == top_modules[1]
                      printed == print_module_hierarchy(h, top_module, 0, <<>>, <<>>)
                      built == export_hierarchy_to_json(h, top_module)
                  IN  IF ~printed.ok
                      THEN [status |-> printed.error, listed |-> TRUE,
                            hierarchy |-> printed.lines, json |-> NoFile,
                            stdout_closed |-> TRUE]
                      ELSE IF ~built.ok
                      THEN [status |-> built.error, listed |-> TRUE,
                            hierarchy |-> printed.lines, json |-> NoFile]
                      ELSE [status |-> "True", listed |-> TRUE,
                            hierarchy |-> printed.lines, json |-> built.node]

----------------------------------------------------------------------------
(* Inputs of the comparator: Tree Models *)

MaxPorts == 2

\* "a:x", "a : x", "a<TAB>:x", "b:y"
P_ax  == <<97, 58, 120>>
P_a_x == <<97, 32, 58, 32, 120>>
P_atx == <<97, 9, 58, 120>>
P_by  == <<98, 58, 121>>
PortStrings == {P_ax, P_a_x, P_atx, P_by}
PortLists == UNION {[1..n -> PortStrings] : n \in 0..MaxPorts}

Mods == {"ModA", "ModB"}

Node(mod, inst, ports, children) ==
    [Module_name |-> mod, Instance_name |-> inst, Port |-> ports,
     Instances |-> children]
WithFile(node, file) == node @@ [File_path |-> file]

\* single nodes with every port list
FlatExpected == {Node(m, "Top", pl, <<>>) : m \in Mods, pl \in PortLists}
FlatActual == {WithFile(n, "") : n \in FlatExpected}

\* trees of depth two with short port lists: Top -> {U1 -> {G1}, U2}
G1Expected == {Node(m, "G1", <<P_ax>>, <<>>) : m \in Mods}
G1Actual == {WithFile(n, "g.v") : n \in G1Expected}
KidsOf(G) == {<<>>} \cup {<<g>> : g \in G}
U1Expected == {Node(m, "U1", pl, kids) :
                  m \in Mods, pl \in {<<P_ax>>, <<P_by>>}, kids \in KidsOf(G1Expected)}
U1Bare == {Node(m, "U1", pl, kids) :
                  m \in Mods, pl \in {<<P_ax>>, <<P_by>>}, kids \in KidsOf(G1Actual)}
U1Actual == U1Bare \cup {WithFile(n, f) : n \in U1Bare, f \in {"", "a.v"}}
U2Expected == {Node("ModB", "U2", <<P_a_x>>, <<>>)}
U2Actual == U2Expected \cup {WithFile(n, f) : n \in U2Expected, f \in {"", "b.v"}}
\* the children lists: the spec lists U1 first, the design U2 first
ChildrenOf(U1, U2, flip) ==
    {<<>>} \cup {<<a>> : a \in U1} \cup {<<b>> : b \in U2}
    \cup {IF flip THEN <<b, a>> ELSE <<a, b>> : a \in U1, b \in U2}
DeepExpected == {Node(m, "Top", <<P_ax>>, c) :
                    m \in Mods, c \in ChildrenOf(U1Expected, U2Expected, FALSE) \ {<<>>}}
DeepActual == {WithFile(Node(m, "Top", <<P_ax>>, c), f) :
                    m \in Mods, f \in {"", "top.v"},
                    c \in ChildrenOf(U1Actual, U2Actual, TRUE) \ {<<>>}}

ExpectedTrees == FlatExpected \cup DeepExpected
ActualTrees == FlatActual \cup DeepActual

InstNames == {"U1", "U2", "G1"}
\* the hash seeds of the comparator's runs: under 1 and 2 U1 and U2 probe
\* different slots first (U1 before U2, U2 before U1), under 4 and 20 they
\* probe the same slot first and the later one goes to a higher (4) or a
\* lower (20) slot
CmpSeeds == {1, 2, 4, 20}

----------------------------------------------------------------------------
(* State of the other entry points while one entry point runs *)

NoBackup == "<no backup>"
Files == {"top.v", "a.v"}
\* history: the calls of step2_parse_rtl and of `make all` so far, what the
\* last of step2_parse_rtl / step3_compare returned, whether the spec
\* inference failed, the Diff Reports of the comparator's earlier runs on
\* the files at hand, and the last call of get_llm_fix: the file, the
\* file_content it was given and what it returned
NoCall == [file |-> "", given |-> "", got |-> NoneValue]
Trace0 == [extract |-> 0, validate |-> 0, status |-> "none", specFailed |-> FALSE,
           previous |-> <<>>, fix |-> NoCall]
IdleDisk ==
    /\ content = [f \in Files |-> "v0"]
    /\ backup = [f \in Files |-> NoBackup]
    /\ orig = [content |-> content, backup |-> backup]
    /\ simLog = <<>>
    /\ apiKey = TRUE
    /\ modified_files = <<>>
    /\ dpos = 0
    /\ i = 0
    /\ trace = Trace0

----------------------------------------------------------------------------
(* comparator.py as a program: main -> run_compare *)

\* the Diff_Arch.json an earlier run of the comparator left in the directory;
\* a run that gets to write its report replaces it, so the states with an
\* earlier report are those of the runs that do not
OldReport == <<DiffRecord("top.v", NodeSummary("ModA", "U1", <<>>), Missing)>>

InitCmp ==
    /\ pc = "compare"
    /\ outcome = "none"
    /\ specJson \in ExpectedTrees \cup {NoFile, BadTree}
    /\ rtlJson \in ActualTrees \cup {BadTree}
    /\ xml = BadXml
    /\ hierTxt = <<>>
    /\ diffJson \in IF specJson = NoFile \/ BadTree \in {specJson, rtlJson}
                    THEN {<<>>, OldReport} ELSE {<<>>}
    /\ hashProbes \in {StrHashes(seed) : seed \in CmpSeeds}
    /\ IdleDisk

\* comparator.main, lines 107-115
CmpMain ==
    /\ pc = "compare"
    /\ LET r == run_compare(specJson, rtlJson)
       IN  /\ diffJson' = IF r.status = "ok" THEN r.diffs ELSE diffJson
           /\ outcome' = r.status
    /\ pc' = "done"
    /\ UNCHANGED <<i, specJson, xml, hierTxt, rtlJson, simLog, apiKey, hashProbes, content,
                   backup, orig, modified_files, dpos, trace>>

NextCmp == CmpMain
SpecCmp == InitCmp /\ [][NextCmp]_vars

----------------------------------------------------------------------------
(* comparator.py run twice on the same two files.  Each run is a process of
   its own (`python comparator.py ...`), and the iteration order of a set of
   str is fixed within a process only: str hashes are salted per process
   unless PYTHONHASHSEED is set. *)

InitRerun ==
    /\ pc = "compare"
    /\ outcome = "none"
    /\ specJson \in DeepExpected
    /\ rtlJson \in DeepActual
    /\ xml = BadXml
    /\ hierTxt = <<>>
    /\ diffJson = <<>>
    /\ hashProbes \in {StrHashes(seed) : seed \in CmpSeeds}
    /\ IdleDisk

\* the comparator is started a second time on the unchanged files; the
\* report of the first run is kept aside in trace.previous
CmpAgain ==
    /\ pc = "done"
    /\ outcome = "ok"
    /\ trace.previous = <<>>
    /\ hashProbes' \in {StrHashes(seed) : seed \in CmpSeeds}
    /\ pc' = "compare"
    /\ outcome' = "none"
    /\ trace' = [trace EXCEPT !.previous = <<diffJson>>]
    /\ UNCHANGED <<i, specJson, xml, hierTxt, rtlJson, diffJson, simLog, apiKey,
                   content, backup, orig, modified_files, dpos>>

NextRerun == CmpMain \/ CmpAgain
SpecRerun == InitRerun /\ [][NextRerun]_vars

----------------------------------------------------------------------------
(* Inputs of the extractor: flat module lists over three modules; a module
   instantiates nothing, one submodule U1, or two submodules U1 and U2; the
   type "Ghost" is no module of the list *)

ExtModules == {"top", "ModA", "ModB"}
\* the hash seeds of the extractor's runs
ExtSeeds == {1, 2, 7, 8, 9, 12}

FileOf(name) == IF name = "top" THEN "top.v" ELSE IF name = "ModA" THEN "a.v" ELSE ""
\* port names "a", "b"
PortsOf(name) == IF name = "top" THEN << <<97>>, <<98>> >>
                 ELSE IF name = "ModA" THEN << <<97>> >> ELSE <<>>
\* U1: a -> x;  U2: b -> y, z and c -> nothing
ConnsOf(inst) ==
    IF inst = "U1"
    THEN << [port |-> <<97>>, direction |-> "input", connected_to |-> << <<120>> >>] >>
    ELSE << [port |-> <<98>>, direction |-> "output",
             connected_to |-> << <<121>>, <<122>> >>],
            [port |-> <<99>>, direction |-> "input", connected_to |-> <<>>] >>

SubmoduleLists ==
    {<<>>}
    \cup {<<[name |-> "U1", type |-> t]>> : t \in ExtModules \cup {"Ghost"}}
    \cup {<<[name |-> "U1", type |-> t], [name |-> "U2", type |-> t]>> : t \in ExtModules}
    \cup {<<[name |-> "U1", type |-> "ModA"], [name |-> "U2", type |-> t]>> :
             t \in {"top", "ModB"}}
    \cup {<<[name |-> "U1", type |-> "ModB"], [name |-> "U2", type |-> "top"]>>}

Module(name, top, subs) ==
    [name |-> name, top |-> top, file_path |-> FileOf(name), ports |-> PortsOf(name),
     submodules |-> subs,
     connections |-> [n \in {subs[k].name : k \in 1..Len(subs)} |-> ConnsOf(n)]]

FlagSets == {{}, {"top"}, {"ModA", "ModB"}}

ModuleLists ==
    {[k \in 1..3 |-> Module(order[k], order[k] \in flags, subs[order[k]])] :
        order \in Perms(ExtModules), flags \in FlagSets,
        subs \in [ExtModules -> SubmoduleLists]}

----------------------------------------------------------------------------
(* extractor.py as a program: main -> run_extract *)

\* the Vtop_hierarchy.txt and Vtop_hierarchy.json an earlier run of the
\* extractor left in the directory (a top module that instantiates nothing),
\* and the directory without them
OldExtraction ==
    [hierarchy |-> <<[top |-> "top"]>>,
     json |-> WithFile(Node("top", "Top", PortsOf("top"), <<>>), FileOf("top"))]
NoExtraction == [hierarchy |-> <<>>, json |-> NoFile]

InitExt ==
    /\ pc = "extract"
    /\ outcome = "none"
    /\ specJson = NoFile
    /\ xml \in {[modules |-> h] : h \in ModuleLists} \cup {BadXml}
    /\ \E old \in {NoExtraction, OldExtraction} :
           hierTxt = old.hierarchy /\ rtlJson = old.json
    /\ diffJson = <<>>
    /\ hashProbes \in {StrHashes(seed) : seed \in ExtSeeds}
    /\ IdleDisk

\* extractor.main, lines 329-336
ExtMain ==
    /\ pc = "extract"
    /\ \E r \in {run_extract(xml)} :
           /\ outcome' = r.status
           /\ hierTxt' = IF r.listed THEN r.hierarchy ELSE hierTxt
           /\ rtlJson' = IF r.status = "True" THEN r.json ELSE rtlJson
    /\ pc' = "done"
    /\ UNCHANGED <<i, specJson, xml, diffJson, simLog, apiKey, hashProbes, content, backup,
                   orig, modified_files, dpos, trace>>

\* export_hierarchy_to_json called on its own for the detected top module,
\* without the printed listing that run_extract writes first
ExportJsonOnly ==
    /\ pc = "extract"
    /\ "unparsable" \notin DOMAIN xml
    /\ LET r == export_hierarchy_to_json(xml.modules, TopModules(xml.modules)[1])
       IN  /\ outcome' = IF r.ok THEN "json" ELSE r.error
           /\ rtlJson' = IF r.ok THEN r.node ELSE rtlJson
    /\ pc' = "done"
    /\ UNCHANGED <<i, specJson, xml, hierTxt, diffJson, simLog, apiKey, hashProbes, content,
                   backup, orig, modified_files, dpos, trace>>

NextExt == ExtMain \/ ExportJsonOnly
SpecExt == InitExt /\ [][NextExt]_vars

\* C1: for every flat module list, cyclic ones included, the walks of
\* print_module_hierarchy and build_structure from the chosen top module
\* terminate (the subtree at a repeated module type being truncated): no
\* extraction ends in RecursionError.
C1_WalksTerminate == pc = "done" => outcome # "RecursionError"

\* the module types instantiated somewhere in the flat list, the modules
\* never instantiated, and the modules flagged topModule
InstantiatedTypes(h) ==
    {t \in ExtModules \cup {"Ghost"} :
        \E k \in 1..Len(h) : \E n \in 1..Len(h[k].submodules) :
            h[k].submodules[n].type = t}
NeverInstantiated(h) == {h[k].name : k \in 1..Len(h)} \ InstantiatedTypes(h)
Flagged(h) == {h[k].name : k \in {n \in 1..Len(h) : h[n].top}}

\* the extractor has written a tree
TreeWritten == pc = "done" /\ outcome \in {"True", "json"}

\* C13 (as claimed): for a flat module list with exactly one never-
\* instantiated module, the tree's root is that module, for every ordering of
\* the list.
C13_TopIsTheRoot ==
    (TreeWritten /\ Cardinality(NeverInstantiated(xml.modules)) = 1)
        => rtlJson.Module_name \in NeverInstantiated(xml.modules)

\* C13 (amended): for a flat module list with exactly one never-instantiated
\* module and no topModule flag on any other module, the tree's root is that
\* module, for every ordering of the list and every set-iteration order.
C13_UnflaggedTopIsTheRoot ==
    (/\ TreeWritten
     /\ Cardinality(NeverInstantiated(xml.modules)) = 1
     /\ Flagged(xml.modules) \subseteq NeverInstantiated(xml.modules))
        => rtlJson.Module_name \in NeverInstantiated(xml.modules)

\* C13 witness: no module is flagged, the one never-instantiated module is
\* the last of the list and is not the first of the set-iteration order, and
\* it is the root of the tree
C13_Witness ==
    /\ TreeWritten
    /\ Flagged(xml.modules) = {}
    /\ NeverInstantiated(xml.modules) = {xml.modules[3].name}
    /\ Head(SetIter(SetOfList([k \in 1..3 |-> xml.modules[k].name]))) # xml.modules[3].name
    /\ rtlJson.Module_name = xml.modules[3].name

\* the module types a module type instantiates (none when it is no module of
\* the list), and the types below a type at any depth
SubTypes(h, m) ==
    UNION {{h[k].submodules[n].type : n \in 1..Len(h[k].submodules)} :
              k \in {j \in 1..Len(h) : h[j].name = m}}
RECURSIVE TypesWithin(_, _, _)
TypesWithin(h, S, n) ==
    IF n = 0 THEN S
    ELSE TypesWithin(h, S \cup UNION {SubTypes(h, t) : t \in S}, n - 1)
TypesBelow(h, m) == TypesWithin(h, SubTypes(h, m), Len(h))
\* nothing at or below m instantiates itself, directly or not
AcyclicFrom(h, m) == \A t \in {m} \cup TypesBelow(h, m) : t \notin TypesBelow(h, t)

\* the connections of the instances of this model as the tree is to show
\* them: U1 "a : x"; U2 "b : y, z" and "c : "
ExpectedPortsOf(inst) ==
    IF inst = "U1" THEN << <<97, 32, 58, 32, 120>> >>
    ELSE << <<98, 32, 58, 32, 121, 44, 32, 122>>, <<99, 32, 58, 32>> >>

\* node is the tree of an instance `inst` of type `type` with the ports `ports`
RECURSIVE IsTreeOf(_, _, _, _, _)
IsTreeOf(h, node, type, inst, ports) ==
    LET known == {k \in 1..Len(h) : h[k].name = type}
        subs == IF known = {} THEN <<>> ELSE h[CHOOSE k \in known : TRUE].submodules
    IN  /\ node.Module_name = type
        /\ node.Instance_name = inst
        /\ node.Port = ports
        /\ node.File_path = (IF known = {} THEN "" ELSE FileOf(type))
        /\ Len(node.Instances) = Len(subs)
        /\ \A k \in 1..Len(subs) :
              IsTreeOf(h, node.Instances[k], subs[k].type, subs[k].name,
                       ExpectedPortsOf(subs[k].name))

\* the module the extractor has chosen as top, read off the written tree
ChosenTop == rtlJson.Module_name

\* C14: when nothing at or below the chosen top module instantiates itself,
\* the extractor writes a tree: the root has the instance name "Top", the
\* top module's file and its bare port names; under every node there is one
\* child per submodule instance of the node's module type, in the order of
\* the instances, with the instance's connections as "port : signal, signal"
\* for ports, the file of the instantiated type and the whole tree of that
\* type below it, at every site where the type is instantiated; a type that
\* is no module of the list gives a node with no file and no children.
C14_TreeOfTheList ==
    (pc = "done" /\ "unparsable" \notin DOMAIN xml) =>
        /\ TreeWritten =>
              IsTreeOf(xml.modules, rtlJson, ChosenTop, "Top", PortsOf(ChosenTop))
        /\ (\A m \in ExtModules : AcyclicFrom(xml.modules, m)) => TreeWritten

\* C14 witness: top instantiates ModB twice, ModB instantiates a type that is
\* no module of the list; both sites carry the whole subtree of ModB
C14_Witness ==
    /\ TreeWritten
    /\ rtlJson.Module_name = "top"
    /\ Len(rtlJson.Instances) = 2
    /\ rtlJson.Instances[1].Module_name = "ModB"
    /\ rtlJson.Instances[2].Module_name = "ModB"
    /\ rtlJson.Instances[1].Port # rtlJson.Instances[2].Port
    /\ rtlJson.Instances[1].Instances = rtlJson.Instances[2].Instances
    /\ Len(rtlJson.Instances[1].Instances) = 1
    /\ rtlJson.Instances[1].Instances[1].Module_name = "Ghost"
    /\ rtlJson.Instances[1].Instances[1].Instances = <<>>

----------------------------------------------------------------------------
(* Claims about the comparator, stated without the comparator's operators *)

ChildNames(node) == {node.Instances[k].Instance_name : k \in 1..Len(node.Instances)}
ChildNamed(node, name) ==
    node.Instances[CHOOSE k \in 1..Len(node.Instances) :
                       node.Instances[k].Instance_name = name]

StripSpaces(s) == SelectSeq(s, LAMBDA c : c # 32)
\* white space: tab, line feed, carriage return, space
StripWhitespace(s) == SelectSeq(s, LAMBDA c : c \notin {9, 10, 13, 32})

Occurrences(l, x) == Cardinality({k \in 1..Len(l) : l[k] = x})
SameBag(l1, l2) ==
    \A x \in Range(l1) \cup Range(l2) : Occurrences(l1, x) = Occurrences(l2, x)

SamePortsUpToSpaces(ps, pp) ==
    SameBag([k \in 1..Len(ps) |-> StripSpaces(ps[k])],
            [k \in 1..Len(pp) |-> StripSpaces(pp[k])])
SamePortsUpToWhitespace(ps, pp) ==
    SameBag([k \in 1..Len(ps) |-> StripWhitespace(ps[k])],
            [k \in 1..Len(pp) |-> StripWhitespace(pp[k])])

\* same module name, same ports up to white space and order at every node, same
\* instance names at every level
RECURSIVE NoStructuralDifference(_, _)
NoStructuralDifference(e, a) ==
    /\ e.Module_name = a.Module_name
    /\ SamePortsUpToWhitespace(e.Port, a.Port)
    /\ ChildNames(e) = ChildNames(a)
    /\ \A n \in ChildNames(e) :
          NoStructuralDifference(ChildNamed(e, n), ChildNamed(a, n))

\* the same, white space being the space character only
RECURSIVE NoDifferenceUpToSpaces(_, _)
NoDifferenceUpToSpaces(e, a) ==
    /\ e.Module_name = a.Module_name
    /\ SamePortsUpToSpaces(e.Port, a.Port)
    /\ ChildNames(e) = ChildNames(a)
    /\ \A n \in ChildNames(e) :
          NoDifferenceUpToSpaces(ChildNamed(e, n), ChildNamed(a, n))

Compared == pc = "done" /\ outcome = "ok"

\* C9: when the expected and the actual tree have no structural difference
\* (same module name, same ports up to white space inside the entries and up
\* to the order of the entries at every node, same instance names at every
\* level), the Diff Report is empty.
C9_NoDifferenceEmptyReport ==
    (Compared /\ NoStructuralDifference(specJson, rtlJson)) => diffJson = <<>>

\* the nodes the comparator matches: the roots, and the children of the same
\* instance name under matched parents
RECURSIVE MatchedPairs(_, _)
MatchedPairs(s, p) ==
    {<<s, p>>} \cup
    UNION {MatchedPairs(ChildNamed(s, n), ChildNamed(p, n)) :
              n \in ChildNames(s) \cap ChildNames(p)}

\* the records of the report for the pair <<s, p>> (instance names are unique
\* in every tree of ExpectedTrees and ActualTrees)
RecordsOf(s, p) ==
    {k \in 1..Len(diffJson) :
        /\ ~IsMissing(diffJson[k].SPEC)
        /\ ~IsMissing(diffJson[k].Parsed)
        /\ diffJson[k].SPEC.Instance_name = s.Instance_name
        /\ diffJson[k].Parsed.Instance_name = p.Instance_name}

Differ(s, p) ==
    s.Module_name # p.Module_name \/ ~SamePortsUpToSpaces(s.Port, p.Port)

\* C10: for every matched pair of nodes the report holds exactly one record
\* of the pair when the module names differ or the normalized port lists
\* differ, and none otherwise, whatever was reported for the ancestors; the
\* record carries the two nodes' module name, instance name and ports.
C10_OneRecordPerMismatch ==
    Compared =>
        \A pair \in MatchedPairs(specJson, rtlJson) :
            LET s == pair[1]
                p == pair[2]
            IN  /\ Cardinality(RecordsOf(s, p)) = (IF Differ(s, p) THEN 1 ELSE 0)
                /\ \A k \in RecordsOf(s, p) :
                      /\ diffJson[k].SPEC =
                            NodeSummary(s.Module_name, s.Instance_name, s.Port)
                      /\ diffJson[k].Parsed =
                            NodeSummary(p.Module_name, p.Instance_name, p.Port)

\* C10 witness: the roots differ in the module name only, the matched U1
\* differ in the ports only, the matched G1 below them in the module name,
\* and all three are reported
C10_Witness ==
    /\ Compared
    /\ specJson.Module_name # rtlJson.Module_name
    /\ SamePortsUpToSpaces(specJson.Port, rtlJson.Port)
    /\ "U1" \in ChildNames(specJson) \cap ChildNames(rtlJson)
    /\ LET s1 == ChildNamed(specJson, "U1")
           p1 == ChildNamed(rtlJson, "U1")
       IN  /\ s1.Module_name = p1.Module_name
           /\ ~SamePortsUpToSpaces(s1.Port, p1.Port)
           /\ "G1" \in ChildNames(s1) \cap ChildNames(p1)
           /\ ChildNamed(s1, "G1").Module_name # ChildNamed(p1, "G1").Module_name
           /\ Cardinality(RecordsOf(s1, p1)) = 1
           /\ Cardinality(RecordsOf(ChildNamed(s1, "G1"), ChildNamed(p1, "G1"))) = 1
    /\ Cardinality(RecordsOf(specJson, rtlJson)) = 1

\* the part of C9 that the code keeps: no difference up to spaces and order
C9_SpacesOnly ==
    (Compared /\ NoDifferenceUpToSpaces(specJson, rtlJson)) => diffJson = <<>>

\* the instance names below a node, at any depth
RECURSIVE DescendantNames(_)
DescendantNames(node) ==
    ChildNames(node) \cup
    UNION {DescendantNames(ChildNamed(node, n)) : n \in ChildNames(node)}

\* the records of the report that name instance `name` on either side
RecordsNaming(name) ==
    {k \in 1..Len(diffJson) :
        \/ ~IsMissing(diffJson[k].SPEC) /\ diffJson[k].SPEC.Instance_name = name
        \/ ~IsMissing(diffJson[k].Parsed) /\ diffJson[k].Parsed.Instance_name = name}

\* the instance names that only one of two matched nodes has, over all matched
\* pairs (an instance name occurs once in a tree of ExpectedTrees, ActualTrees)
OnlyExpectedNames ==
    UNION {ChildNames(pair[1]) \ ChildNames(pair[2]) :
              pair \in MatchedPairs(specJson, rtlJson)}
OnlyActualNames ==
    UNION {ChildNames(pair[2]) \ ChildNames(pair[1]) :
              pair \in MatchedPairs(specJson, rtlJson)}
DifferingPairs == {pair \in MatchedPairs(specJson, rtlJson) : Differ(pair[1], pair[2])}

\* C11: under matched parents an instance name that only the expected tree
\* has yields exactly one record, with the instance's summary as SPEC and
\* Parsed = "Missing"; an instance name that only the actual tree has yields
\* exactly one record, with SPEC = "Missing" and the instance's summary as
\* Parsed; no record names a descendant of a one-sided instance, and the
\* report holds nothing but these records and those of the mismatching pairs.
C11_OneSidedInstances ==
    Compared =>
        /\ \A pair \in MatchedPairs(specJson, rtlJson) :
              LET s == pair[1]
                  p == pair[2]
              IN  /\ \A n \in ChildNames(s) \ ChildNames(p) :
                        LET c == ChildNamed(s, n)
                        IN  /\ Cardinality(RecordsNaming(n)) = 1
                            /\ \A k \in RecordsNaming(n) :
                                  /\ diffJson[k].SPEC =
                                        NodeSummary(c.Module_name, n, c.Port)
                                  /\ IsMissing(diffJson[k].Parsed)
                            /\ \A d \in DescendantNames(c) : RecordsNaming(d) = {}
                  /\ \A n \in ChildNames(p) \ ChildNames(s) :
                        LET c == ChildNamed(p, n)
                        IN  /\ Cardinality(RecordsNaming(n)) = 1
                            /\ \A k \in RecordsNaming(n) :
                                  /\ IsMissing(diffJson[k].SPEC)
                                  /\ diffJson[k].Parsed =
                                        NodeSummary(c.Module_name, n, c.Port)
                            /\ \A d \in DescendantNames(c) : RecordsNaming(d) = {}
        /\ Len(diffJson) = Cardinality(DifferingPairs)
                           + Cardinality(OnlyExpectedNames)
                           + Cardinality(OnlyActualNames)

\* C11 witness: U1, with G1 below it, is in the expected tree only, U2 in the
\* actual tree only, and the report holds their two records and none of G1
C11_Witness ==
    /\ Compared
    /\ ChildNames(specJson) = {"U1"}
    /\ ChildNames(rtlJson) = {"U2"}
    /\ ChildNames(ChildNamed(specJson, "U1")) = {"G1"}
    /\ Cardinality(RecordsNaming("U1")) = 1
    /\ Cardinality(RecordsNaming("U2")) = 1
    /\ RecordsNaming("G1") = {}

Ran2 == Compared /\ trace.previous # <<>>

\* C12: a second run of the comparator on the same, unchanged pair of trees
\* writes the same Diff Report as the first: the same records in the same
\* order.
C12_RerunSameReport ==
    Ran2 => diffJson = trace.previous[1]

\* the part of C12 that the code keeps: the second report holds the same
\* records as the first, each as often
C12_RerunSameRecords ==
    Ran2 => SameBag(diffJson, trace.previous[1])

\* a node's own file, if it has one
HasFile(node) == "File_path" \in DOMAIN node /\ node.File_path # ""

\* the resolved file of an actual node: its own file, else the resolved file
\* of its parent, else "Top Level" at the root (parent_resolved = NoneValue)
ResolvedFile(p, parent_resolved) ==
    IF HasFile(p) THEN p.File_path
    ELSE IF parent_resolved # NoneValue THEN parent_resolved
    ELSE "Top Level"

\* the matched pairs <<s, p>>, each with the resolved file of p
RECURSIVE MatchedWithFile(_, _, _)
MatchedWithFile(s, p, parent_resolved) ==
    {<<s, p, ResolvedFile(p, parent_resolved)>>} \cup
    UNION {MatchedWithFile(ChildNamed(s, n), ChildNamed(p, n),
                           ResolvedFile(p, parent_resolved)) :
              n \in ChildNames(s) \cap ChildNames(p)}

\* the file tags of the missing-instance records follow the resolved-file rule
MissingRecordsFiled ==
    \A t \in MatchedWithFile(specJson, rtlJson, NoneValue) :
        LET s == t[1]
            p == t[2]
            resolved == t[3]
        IN  /\ \A n \in ChildNames(s) \ ChildNames(p) :
                  \A k \in RecordsNaming(n) : diffJson[k].file = resolved
            /\ \A n \in ChildNames(p) \ ChildNames(s) :
                  \A k \in RecordsNaming(n) :
                      diffJson[k].file = ResolvedFile(ChildNamed(p, n), resolved)

\* C16: a record for an instance only the expected tree has is filed under
\* the resolved file of the current node (the actual node's file if it has
\* one, else the parent's resolved file, else "Top Level" at the root); a
\* record for an instance only the actual tree has is filed under that
\* child's own file, or under the current node's resolved file when the
\* child has none or an empty one.
C16_MissingRecordsFiled ==
    Compared => MissingRecordsFiled

\* every node of an actual tree has a file of its own
RECURSIVE AllHaveFiles(_)
AllHaveFiles(node) ==
    /\ HasFile(node)
    /\ \A n \in ChildNames(node) : AllHaveFiles(ChildNamed(node, n))

\* the part of C16 that the code keeps: the same, when every node of the
\* actual tree has a file of its own
C16_FiledWhenFilesKnown ==
    (Compared /\ AllHaveFiles(rtlJson)) => MissingRecordsFiled

----------------------------------------------------------------------------
(* interpreter.py *)

\* What the spec-inference step meets: no API key, no spec document, a
\* failing service call, a reply that is not JSON, or a reply that is JSON
\* (doc: the parsed value).
\* parse_spec, lines 60-118: every failure is printed and parse_spec returns;
\* nothing is raised.  The value is [raised, spec_json], spec_json being
\* SPEC.json after the call (old: before it).
parse_spec(inference, old) ==
    IF inference.kind = "json"
    THEN [raised |-> FALSE, spec_json |-> inference.doc]
    ELSE [raised |-> FALSE, spec_json |-> old]

----------------------------------------------------------------------------
(* archer.py *)

MAX_ITER == 5

\* step1_parse_spec, lines 86-93: False only when parse_spec raises
step1_parse_spec(inference, old) ==
    LET r == parse_spec(inference, old)
    IN  [ok |-> ~r.raised, spec_json |-> r.spec_json]

\* step2_parse_rtl, lines 95-104.  "raise": the handler of line 103 prints to
\* a closed sys.stdout, and the ValueError leaves step2_parse_rtl and main.
step2_parse_rtl(make_ok, x) ==
    IF ~make_ok
    THEN [status |-> "False", listed |-> FALSE, hierarchy |-> <<>>, json |-> NoFile]
    ELSE ValueOf(run_extract(x), LAMBDA r :
             IF r.status \in {"True", "False"} THEN r
             ELSE IF "stdout_closed" \in DOMAIN r
             THEN [status |-> "raise", listed |-> r.listed, hierarchy |-> r.hierarchy,
                   json |-> r.json]
             ELSE [status |-> "False", listed |-> r.listed, hierarchy |-> r.hierarchy,
                   json |-> r.json])

\* step3_compare, lines 106-112: "exit" is sys.exit(1) of load_json, which
\* `except Exception` does not catch
step3_compare(spec_json, parsed_json) ==
    LET r == run_compare(spec_json, parsed_json)
    IN  IF r.status = "ok" THEN [status |-> "True", diffs |-> r.diffs]
        ELSE IF r.status = "raise" THEN [status |-> "False", diffs |-> <<>>]
        ELSE r

\* str.lower() of one code point (ASCII)
LowerCode(c) == IF c >= 65 /\ c <= 90 THEN c + 32 ELSE c
Lower(t) == [k \in 1..Len(t) |-> LowerCode(t[k])]
\* sub in t
Contains(sub, t) ==
    \E k \in 0..(Len(t) - Len(sub)) : SubSeq(t, k + 1, k + Len(sub)) = sub

\* a faulty variant of check_sim_pass: any log passes
check_sim_pass_always(log) == TRUE

\* check_sim_pass, lines 114-127: "sim passed" or "simulation passed" in the
\* lower-cased log (run_cmd has just written the log file, so it exists)
check_sim_pass(log) ==
    \/ Contains(<<115, 105, 109, 32, 112, 97, 115, 115, 101, 100>>, Lower(log))
    \/ Contains(<<115, 105, 109, 117, 108, 97, 116, 105, 111, 110, 32, 112, 97, 115, 115, 101, 100>>, Lower(log))

\* get_llm_fix, lines 32-84, from the service's reply: "error" (the call
\* raises), or a text, possibly wrapped in ``` fences.  None when the call
\* raises or the reply is a lone fence line (lines[-1] of an empty list
\* raises IndexError), else the stripped text without its fences.
get_llm_fix(reply) ==
    IF reply.kind = "error" THEN NoneValue
    ELSE IF reply.fenced /\ reply.lone_fence THEN NoneValue
    ELSE reply.body

\* a faulty variant of BackupAfterFix: the backup is taken on every fix
BackupAfterFix_overwrite(bak, file_path, text) == [bak EXCEPT ![file_path] = text]

\* lines 194-197: the backups after a fix of file_path, whose text was `text`
BackupAfterFix(bak, file_path, text) ==
    IF bak[file_path] = NoBackup THEN [bak EXCEPT ![file_path] = text] ELSE bak

\* a faulty variant of LoopContinues: one iteration too many
LoopContinues_off_by_one(n) == n <= MAX_ITER

\* `for i in range(MAX_ITER)`: whether the loop has an iteration for i = n
LoopContinues(n) == n < MAX_ITER

\* a faulty variant of StopWithoutFix: the empty iteration is validated like any other
StopWithoutFix_never(modified) == FALSE

\* line 208: `if not modified_files`
StopWithoutFix(modified) == modified = <<>>

\* a faulty variant of IsFatal: a failed step is ignored
IsFatal_never(status) == FALSE

\* lines 142 and 147: `if not step2_parse_rtl()`, `if not step3_compare()`
IsFatal(status) == status = "False"

\* a faulty variant of NoDiffs: the report is never seen as empty
NoDiffs_never(diffs) == FALSE

\* line 160: `if not diffs`
NoDiffs(diffs) == diffs = <<>>

----------------------------------------------------------------------------
(* Inputs of the repair loop *)

\* "SIM PASSED", "Simulation Passed!", "sim failed"
LogSimPassed == <<83, 73, 77, 32, 80, 65, 83, 83, 69, 68>>
LogSimulationPassed ==
    <<83, 105, 109, 117, 108, 97, 116, 105, 111, 110, 32, 80, 97, 115, 115, 101, 100, 33>>
LogSimFailed == <<115, 105, 109, 32, 102, 97, 105, 108, 101, 100>>
SimLogs == {LogSimPassed, LogSimulationPassed, LogSimFailed}

\* the expected tree the service infers: top -> {U1: ModA, U2: ModB}, ports
\* written without spaces
SpecTree ==
    Node("top", "Top", << <<97>>, <<98>> >>,
         << Node("ModA", "U1", << <<97, 58, 120>> >>, <<>>),
            Node("ModB", "U2", << <<98, 58, 121, 44, 122>>, <<99, 58>> >>, <<>>) >>)
\* the same without U2, U1 being a ModB
SpecTreeSmall ==
    Node("top", "Top", << <<97>>, <<98>> >>,
         << Node("ModB", "U1", << <<97, 58, 120>> >>, <<>>) >>)

Sub(name, type) == [name |-> name, type |-> type]
Design(top_subs, a_subs, b_subs, flags) ==
    [modules |-> << Module("top", "top" \in flags, top_subs),
                    Module("ModA", "ModA" \in flags, a_subs),
                    Module("ModB", "ModB" \in flags, b_subs) >>]

\* the designs `make xml` elaborates in the runs of this model
DesignAsSpec == Design(<<Sub("U1", "ModA"), Sub("U2", "ModB")>>, <<>>, <<>>, {"top"})
DesignNoU2 == Design(<<Sub("U1", "ModA")>>, <<>>, <<>>, {"top"})
DesignWrongU1 == Design(<<Sub("U1", "ModB"), Sub("U2", "ModB")>>, <<>>, <<>>, {})
DesignExtraGhost ==
    Design(<<Sub("U1", "ModA")>>, <<Sub("U1", "Ghost")>>, <<>>, {"top"})
DesignRootModA ==
    Design(<<>>, <<Sub("U1", "ModB"), Sub("U2", "ModB")>>, <<>>, {"ModA"})
DesignRootModB == Design(<<>>, <<>>, <<Sub("U1", "ModA")>>, {"ModB"})
DesignCyclic == Design(<<Sub("U1", "ModA")>>, <<Sub("U1", "top")>>, <<>>, {"top"})
Designs == {DesignAsSpec, DesignNoU2, DesignWrongU1, DesignExtraGhost,
            DesignRootModA, DesignRootModB, DesignCyclic, BadXml}

Inferences(key) ==
    IF ~key THEN {[kind |-> "no_key"]}
    ELSE {[kind |-> "no_spec_file"], [kind |-> "service_error"], [kind |-> "not_json"],
          [kind |-> "json", doc |-> SpecTree], [kind |-> "json", doc |-> SpecTreeSmall],
          [kind |-> "json", doc |-> BadTree]}

Replies ==
    {[kind |-> "error"],
     [kind |-> "text", fenced |-> TRUE, lone_fence |-> TRUE, body |-> ""],
     [kind |-> "text", fenced |-> FALSE, lone_fence |-> FALSE, body |-> ""],
     [kind |-> "text", fenced |-> TRUE, lone_fence |-> FALSE, body |-> "fixA"],
     [kind |-> "text", fenced |-> FALSE, lone_fence |-> FALSE, body |-> "fixB"]}

\* the hash seeds of archer's runs: the two orders of a run that depend on
\* the hashes are that of list(all_modules - instantiated_modules), whose
\* head is the root, and that of the keys U1 and U2.  Under 1 top comes
\* before ModA and U1 before U2, under 2 top before ModA and U2 before U1,
\* under 3 ModA before top and U2 before U1, under 10 ModA before top and
\* U1 before U2
OrchSeeds == {1, 2, 3, 10}

----------------------------------------------------------------------------
(* archer.py as a program: main *)

Init ==
    /\ pc = "step1"
    /\ i = 0
    /\ outcome = "none"
    /\ specJson \in {NoFile, SpecTree}      \* SPEC.json of an earlier run, if any
    /\ xml = BadXml
    /\ hierTxt = <<>>
    /\ rtlJson = NoFile
    /\ diffJson = <<>>
    /\ simLog = <<>>
    /\ apiKey \in BOOLEAN
    /\ hashProbes \in {StrHashes(seed) : seed \in OrchSeeds}
    /\ content = [f \in Files |-> IF f = "top.v" THEN "v0" ELSE "v1"]
    /\ backup \in {[f \in Files |-> NoBackup],
                   [f \in Files |-> IF f = "top.v" THEN "old" ELSE NoBackup]}
    /\ orig = [content |-> content, backup |-> backup]
    /\ modified_files = <<>>
    /\ dpos = 0
    /\ trace = Trace0

Finish(how) == pc' = "done" /\ outcome' = how

\* lines 134-138: step 1, then the first iteration if there is one
Step1ParseSpec ==
    /\ pc = "step1"
    /\ \E inference \in Inferences(apiKey) :
          LET r == step1_parse_spec(inference, specJson)
          IN  /\ specJson' = r.spec_json
              /\ trace' = [trace EXCEPT !.specFailed = inference.kind # "json"]
              /\ IF ~r.ok THEN Finish("SpecAbort")
                 ELSE IF LoopContinues(0) THEN pc' = "extract" /\ outcome' = outcome
                 ELSE Finish("Exhausted")
    /\ UNCHANGED <<i, xml, hierTxt, rtlJson, diffJson, simLog, apiKey, hashProbes,
                   content, backup, orig, modified_files, dpos>>

\* lines 141-144: `make xml` (which elaborates design x, or fails) and the
\* extractor
Step2ParseRtl ==
    /\ pc = "extract"
    /\ \E make_ok \in BOOLEAN, x \in Designs :
          \E r \in {step2_parse_rtl(make_ok, x)} :
              /\ xml' = IF make_ok THEN x ELSE xml
              /\ hierTxt' = IF r.listed THEN r.hierarchy ELSE hierTxt
              /\ rtlJson' = IF r.status = "True" THEN r.json ELSE rtlJson
              /\ trace' = [trace EXCEPT !.extract = @ + 1, !.status = r.status]
              /\ IF r.status = "raise" THEN Finish("Crashed")
                 ELSE IF IsFatal(r.status) THEN Finish("Aborted")
                 ELSE pc' = "compare" /\ outcome' = outcome
    /\ UNCHANGED <<i, specJson, diffJson, simLog, apiKey, hashProbes, content, backup,
                   orig, modified_files, dpos>>

\* lines 146-158: the comparator, then Diff_Arch.json is read back
Step3Compare ==
    /\ pc = "compare"
    /\ \E r \in {step3_compare(specJson, rtlJson)} :
           /\ diffJson' = IF r.status = "True" THEN r.diffs ELSE diffJson
           /\ trace' = [trace EXCEPT !.status = r.status]
           /\ IF r.status = "exit" THEN Finish("Exit")
              ELSE IF IsFatal(r.status) THEN Finish("Aborted")
              ELSE pc' = "decide" /\ outcome' = outcome
    /\ UNCHANGED <<i, specJson, xml, hierTxt, rtlJson, simLog, apiKey, hashProbes,
                   content, backup, orig, modified_files, dpos>>

\* lines 160-170: no diffs; `make all` writes the log, the verdict ends the run
DecideClean ==
    /\ pc = "decide"
    /\ NoDiffs(diffJson)
    /\ \E log \in SimLogs :
          /\ simLog' = log
          /\ IF check_sim_pass(log) THEN Finish("Success")
             ELSE Finish("StructurallyCleanButFailing")
    /\ trace' = [trace EXCEPT !.validate = @ + 1]
    /\ UNCHANGED <<i, specJson, xml, hierTxt, rtlJson, diffJson, apiKey, hashProbes,
                   content, backup, orig, modified_files, dpos>>

\* lines 172-177: diffs; the fix loop starts with no modified file
DecideRepair ==
    /\ pc = "decide"
    /\ ~NoDiffs(diffJson)
    /\ modified_files' = <<>>
    /\ dpos' = 1
    /\ pc' = "repair"
    /\ UNCHANGED <<i, outcome, specJson, xml, hierTxt, rtlJson, diffJson, simLog,
                   apiKey, hashProbes, content, backup, orig, trace>>

\* lines 177-206: one pass of `for diff in diffs`.  Without an API key the
\* constructor OpenAI(api_key=None) of line 33, outside the try, raises.
RepairDiff ==
    /\ pc = "repair"
    /\ dpos <= Len(diffJson)
    /\ LET file_path == diffJson[dpos].file
       IN  IF ~Truthy(file_path) \/ file_path \notin DOMAIN content
           THEN /\ dpos' = dpos + 1
                /\ UNCHANGED <<pc, outcome, content, backup, modified_files, trace>>
           ELSE IF ~apiKey
           THEN /\ Finish("Crashed")
                /\ UNCHANGED <<dpos, content, backup, modified_files, trace>>
           ELSE \E reply \in Replies :
                   LET original_content == content[file_path]
                       new_content == get_llm_fix(reply)
                   IN  /\ dpos' = dpos + 1
                       /\ UNCHANGED <<pc, outcome>>
                       /\ trace' = [trace EXCEPT !.fix = [file |-> file_path,
                                                          given |-> original_content,
                                                          got |-> new_content]]
                       /\ IF Truthy(new_content)
                          THEN /\ backup' = BackupAfterFix(backup, file_path,
                                                           original_content)
                               /\ content' = [content EXCEPT ![file_path] = new_content]
                               /\ modified_files' = Append(modified_files, file_path)
                          ELSE UNCHANGED <<content, backup, modified_files>>
    /\ UNCHANGED <<i, specJson, xml, hierTxt, rtlJson, diffJson, simLog, apiKey,
                   hashProbes, orig>>

\* lines 208-225: after the fix loop; `make all`, the verdict, and the next
\* iteration if the loop has one (a `for` loop that runs out leaves i at its
\* last value)
RepairDone ==
    /\ pc = "repair"
    /\ dpos > Len(diffJson)
    /\ IF StopWithoutFix(modified_files)
       THEN /\ Finish("NonProgress")
            /\ UNCHANGED <<i, simLog, trace>>
       ELSE \E log \in SimLogs :
               /\ simLog' = log
               /\ trace' = [trace EXCEPT !.validate = @ + 1]
               /\ IF check_sim_pass(log) THEN Finish("Success") /\ i' = i
                  ELSE IF LoopContinues(i + 1)
                  THEN i' = i + 1 /\ pc' = "extract" /\ outcome' = outcome
                  ELSE Finish("Exhausted") /\ i' = i
    /\ UNCHANGED <<specJson, xml, hierTxt, rtlJson, diffJson, apiKey, hashProbes,
                   content, backup, orig, modified_files, dpos>>

Next ==
    \/ Step1ParseSpec
    \/ Step2ParseRtl
    \/ Step3Compare
    \/ DecideClean
    \/ DecideRepair
    \/ RepairDiff
    \/ RepairDone

Spec == Init /\ [][Next]_vars

\* main is one sequential process: while it is not done its next step runs
FairSpec == Spec /\ WF_vars(Next)

----------------------------------------------------------------------------
(* Claims about the repair loop *)

\* the logs that hold a pass marker, whatever the case of its letters
LogSaysPassed(log) == log \in {LogSimPassed, LogSimulationPassed}

Times(seq, x) == Cardinality({k \in 1..Len(seq) : seq[k] = x})

\* a finished run takes no further step
NoStepAfterDone == pc # "done"

\* C2 (as claimed): whenever the run ends in Success, the last Compare found
\* no diffs and the validation passed.
C2_SuccessMeansNoDiffs ==
    outcome = "Success" => (diffJson = <<>> /\ LogSaysPassed(simLog))

\* C2 (amended): whenever the run ends in Success the validation of that
\* iteration passed, and either its Diff Report was empty or its Repair
\* modified at least one file (the repaired design is not compared again);
\* the loop stops only on (a) an empty Diff Report followed by Validate, which
\* gives Success or StructurallyCleanButFailing, (b) a passing Validate after
\* a Repair, (c) the exhausted iteration bound, (d) an iteration that
\* modified no file, or (e) a fatal failure of Extract, Compare or Repair.
C2_SuccessMeansValidated ==
    /\ outcome = "Success" =>
          /\ LogSaysPassed(simLog)
          /\ diffJson = <<>> \/ modified_files # <<>>
    /\ pc = "done" =>
          \/ outcome = "Success"
          \/ outcome = "StructurallyCleanButFailing"
                /\ diffJson = <<>> /\ ~LogSaysPassed(simLog)
          \/ outcome = "Exhausted"
                /\ i = MAX_ITER - 1 /\ modified_files # <<>> /\ ~LogSaysPassed(simLog)
          \/ outcome = "NonProgress" /\ diffJson # <<>> /\ modified_files = <<>>
          \/ outcome \in {"Aborted", "Exit", "Crashed"}

\* C2 witness: Success in an iteration whose Diff Report was not empty
C2_Witness ==
    outcome = "Success" /\ diffJson # <<>> /\ modified_files # <<>> /\ i >= 1

\* C3: once the spec inference has failed, Extract never runs and no source
\* file or backup is touched.
C3_SpecFailureAborts ==
    trace.specFailed =>
        /\ trace.extract = 0
        /\ trace.validate = 0
        /\ content = orig.content
        /\ backup = orig.backup

\* C4: in a run that starts with no backup files, a file's backup, once it
\* exists, holds the content the file had at the start of the run; a file is
\* never overwritten without a backup, which is taken from the content before
\* the write; an existing backup is never changed or removed.
C4_BackupIsOriginal ==
    /\ [](\A f \in Files :
             (orig.backup[f] = NoBackup /\ backup[f] # NoBackup)
                 => backup[f] = orig.content[f])
    /\ [][\A f \in Files :
             /\ backup[f] # NoBackup => backup'[f] = backup[f]
             /\ content'[f] # content[f] => backup'[f] # NoBackup
             /\ (backup[f] = NoBackup /\ backup'[f] # NoBackup)
                   => backup'[f] = content[f]]_vars

\* C4 witness: a file that was overwritten in an earlier iteration and twice
\* in this one, its backup still the original
C4_Witness ==
    \E f \in Files :
        /\ orig.backup[f] = NoBackup
        /\ i >= 1
        /\ Times(modified_files, f) >= 2
        /\ content[f] # orig.content[f]
        /\ backup[f] = orig.content[f]

\* C5: every run ends; Extract runs at most MAX_ITER times, once per
\* iteration, and after MAX_ITER iterations with a failing Validate the run
\* is over (Exhausted).
C5_BoundedIterations ==
    /\ <>(pc = "done")
    /\ [](/\ trace.extract <= MAX_ITER
          /\ i < MAX_ITER
          /\ pc \notin {"step1", "extract", "done"} => trace.extract = i + 1
          /\ trace.validate = MAX_ITER => pc = "done"
          /\ outcome = "Exhausted" => trace.validate = MAX_ITER)

\* C5 witness: MAX_ITER iterations, each repaired and failing its validation
C5_Witness ==
    /\ pc = "done" /\ outcome = "Exhausted"
    /\ i = MAX_ITER - 1 /\ trace.extract = MAX_ITER /\ trace.validate = MAX_ITER

\* C6: when the fix loop of an iteration ends with no modified file, the run
\* ends there as non-progress: `make all` is not run and no iteration follows.
C6_NoFixStops ==
    [][/\ (pc = "repair" /\ dpos > Len(diffJson) /\ modified_files = <<>>)
            => /\ pc' = "done" /\ outcome' = "NonProgress"
               /\ trace'.validate = trace.validate
               /\ simLog' = simLog /\ i' = i
       /\ NoStepAfterDone]_vars

\* C6 witness: the only record is {expected: U2/ModB, actual: Missing}, its
\* file exists, the repair service gave nothing, and the run ended as
\* non-progress with the file untouched
C6_Witness ==
    /\ pc = "done" /\ outcome = "NonProgress"
    /\ Len(diffJson) = 1
    /\ IsMissing(diffJson[1].Parsed)
    /\ diffJson[1].SPEC.Instance_name = "U2" /\ diffJson[1].SPEC.Module_name = "ModB"
    /\ diffJson[1].file \in Files
    /\ apiKey
    /\ content = orig.content /\ backup = orig.backup
    /\ trace.validate = 0

\* C7: a step2_parse_rtl or step3_compare that does not return True ends the
\* run in that step: no file or backup is written, `make all` is not run, no
\* iteration follows.
C7_FatalExtractCompare ==
    [][/\ (pc \in {"extract", "compare"} /\ trace'.status # "True")
            => /\ pc' = "done" /\ outcome' \in {"Aborted", "Exit", "Crashed"}
               /\ content' = content /\ backup' = backup
               /\ trace'.validate = trace.validate /\ i' = i
       /\ NoStepAfterDone]_vars

\* C7 witness: Extract fails in a later iteration, after files were fixed
C7_Witness ==
    /\ pc = "done" /\ outcome = "Aborted" /\ trace.status = "False"
    /\ i >= 1 /\ trace.extract = i + 1 /\ trace.validate = i
    /\ content # orig.content

\* C8: with an empty Diff Report the iteration runs `make all` once and ends
\* the run, Success when the log passes and StructurallyCleanButFailing when
\* it does not; the fix loop is not entered, and Extract, Compare and this
\* step write no file and no backup.
C8_CleanReportValidatesOnce ==
    [][/\ (pc = "decide" /\ diffJson = <<>>)
            => /\ pc' = "done"
               /\ trace'.validate = trace.validate + 1
               /\ outcome' = (IF LogSaysPassed(simLog') THEN "Success"
                              ELSE "StructurallyCleanButFailing")
               /\ modified_files' = modified_files /\ dpos' = dpos /\ i' = i
       /\ pc \in {"extract", "compare", "decide"}
            => (content' = content /\ backup' = backup)
       /\ NoStepAfterDone]_vars

\* C8 witness: a later iteration finds no diffs and its validation fails
C8_Witness ==
    /\ pc = "done" /\ outcome = "StructurallyCleanButFailing"
    /\ diffJson = <<>> /\ i >= 1 /\ trace.validate = i + 1

\* what a step of the fix loop does with the Diff Record it is at: the record
\* is skipped or fixed and the loop moves to the next record of the report;
\* a record without an existing file leaves the files, the backups and the
\* list of modified files alone and the repair service is not called; for
\* any other record the service is given the file's content as it is on disk
\* now (so what an earlier record of the iteration wrote), and a reply that
\* is no usable text leaves the files, the backups and the list alone
RecordHandled ==
    LET f == diffJson[dpos].file
        resolvable == f \in Files
    IN  /\ pc' = "repair"
        /\ dpos' = dpos + 1
        /\ diffJson' = diffJson
        /\ ~resolvable =>
              /\ UNCHANGED <<content, backup, modified_files>>
              /\ trace'.fix = trace.fix
        /\ resolvable =>
              /\ trace'.fix.file = f
              /\ trace'.fix.given = content[f]
              /\ trace'.fix.got \in {NoneValue, ""} =>
                    UNCHANGED <<content, backup, modified_files>>
              /\ trace'.fix.got \notin {NoneValue, ""} =>
                    /\ content' = [content EXCEPT ![f] = trace'.fix.got]
                    /\ modified_files' = Append(modified_files, f)

\* C15: within one Repair state every Diff Record is handled on its own, in
\* the order of the report: a record with no existing file, or for which the
\* repair service gives no usable output, is skipped (files and backups
\* unchanged, no second attempt) and the loop goes on with the next record;
\* a later record of the same file is given what the earlier one wrote.
C15_RecordsHandledInIsolation ==
    [][(pc = "repair" /\ dpos <= Len(diffJson)) => RecordHandled]_vars

\* the part of C15 that the code keeps: the same, for runs with an API key
C15_HandledWithKey ==
    [][(pc = "repair" /\ dpos <= Len(diffJson) /\ apiKey) => RecordHandled]_vars

=============================================================================
